---------------------------- MODULE Spec2Model ----------------------------
(***************************************************************************)
(* A model of toltool (src/toltool/cli.py): the metadata locator, the      *)
(* metadata parser and the submission extractor, with the `view` and       *)
(* `unpack` commands that drive them.                                      *)
(*                                                                         *)
(* Text is modelled as Python holds it: a str is a sequence of             *)
(* one-character strings, and the regular expressions of the source are    *)
(* operators over such sequences.                                          *)
(***************************************************************************)
EXTENDS Integers, Sequences, FiniteSets, TLC

VARIABLES
    \* ---- the metadata locator, iterated on its own (SpecLocator) ----
    nameSpecs,      \* the structure each entry name was built from
    contents,       \* archive.namelist(): the entry names, as text
    li,             \* entries the generator expression has consumed
    selected,       \* the names it has produced, in the order produced
    \* ---- find_submitted_files, iterated on its own (SpecScan) ----
    lineSpecs,      \* the structure each line was built from
    metadata,       \* the text handed to find_submitted_files
    si,             \* lines the for loop has consumed
    actual_name,    \* the local actual_name
    result,         \* the local result: a dict, in insertion order
    branch,         \* which `if` of the loop body the last line took
    \* ---- a run of `view` or `unpack` (Spec, FairSpec) ----
    command,        \* "view" or "unpack"
    archive,        \* the archive: its entries, in order
    archiveValid,   \* whether the path names a readable zip file
    pc,             \* position in the command
    archiveOpen,    \* the ZipFile handle is open
    openCount,      \* ZipFile(archive) calls made
    idx,            \* entries of namelist() the generator has passed
    cur,            \* the submission yielded to the for loop
    curIdx,         \* the archive position of its metadata entry
    fpos,           \* pairs of cur.files already extracted
    dirs,           \* directories under the working directory
    files,          \* files in them: <<directory, name>> -> bytes
    stdout,         \* lines printed to standard output
    stderr,         \* lines printed to standard error
    rows,           \* rows added to the table of `view`
    emitted,        \* <<archive position, Submission>> yielded so far
    parsed,         \* archive positions of the metadata entries read
    completed,      \* archive positions whose extraction has finished
    written,        \* the files the extraction steps wrote, in order
    readClosed,     \* the archive was read while it was closed
    failure,        \* the exception that ended the run, or "none"
    failedAt,       \* the archive position being handled when it was raised
    rerun,          \* this is the second run over the same archive
    firstRun        \* what the first run left: directories, files, failure

locVars  == <<nameSpecs, contents, li, selected>>
scanVars == <<lineSpecs, metadata, si, actual_name, result, branch>>
runVars  == <<command, archive, archiveValid, pc, archiveOpen, openCount, idx,
              cur, curIdx, fpos, dirs, files, stdout, stderr, rows, emitted,
              parsed, completed, written, readClosed, failure, failedAt, rerun,
              firstRun>>
vars     == <<locVars, scanVars, runVars>>

----------------------------------------------------------------------------
(* Text.                                                                   *)

\* Python's str.join over a list of str
RECURSIVE Join(_, _)
Join(parts, sep) ==
    IF parts = << >> THEN << >>
    ELSE IF Len(parts) = 1 THEN parts[1]
    ELSE parts[1] \o sep \o Join(Tail(parts), sep)

\* ''.join(parts)
Concat(parts) == Join(parts, << >>)

\* p occurs in s at position i (1-based)
OccursAt(s, i, p) ==
    /\ i >= 1
    /\ i + Len(p) - 1 <= Len(s)
    /\ \A k \in 1..Len(p) : s[i + k - 1] = p[k]

\* s[i..] in Python's terms: the rest of s from position i on
From(s, i) == SubSeq(s, i, Len(s))

\* str.endswith
EndsWith(s, p) == Len(s) >= Len(p) /\ OccursAt(s, Len(s) - Len(p) + 1, p)

\* characters \s matches (those occurring in the texts modelled; the line
\* break is kept apart because . does not match it)
Whitespace == {" ", "\t"}
LineBreak == "\n"
\* characters \d matches
Digits == {"0", "1", "2", "3", "4", "5", "6", "7", "8", "9"}

\* the first position of c in s, 0 when there is none
FirstIndex(s, c) ==
    IF \E i \in 1..Len(s) : s[i] = c
    THEN CHOOSE i \in 1..Len(s) : s[i] = c /\ \A j \in 1..(i - 1) : s[j] # c
    ELSE 0

\* str.splitlines: a final line break ends the last line, it opens no new one
RECURSIVE SplitLines(_)
SplitLines(s) ==
    IF s = << >> THEN << >>
    ELSE LET k == FirstIndex(s, LineBreak)
         IN  IF k = 0 THEN <<s>>
             ELSE <<SubSeq(s, 1, k - 1)>> \o SplitLines(From(s, k + 1))

\* str.split(' '): every single space separates, empty pieces are kept
RECURSIVE SplitSpaces(_)
SplitSpaces(s) ==
    LET k == FirstIndex(s, " ")
    IN  IF k = 0 THEN <<s>>
        ELSE <<SubSeq(s, 1, k - 1)>> \o SplitSpaces(From(s, k + 1))

\* the number of leading characters of s that lie in the set cls
LeadingRun(s, cls) ==
    IF \A i \in 1..Len(s) : s[i] \in cls THEN Len(s)
    ELSE (CHOOSE i \in 1..Len(s) :
             s[i] \notin cls /\ \A j \in 1..(i - 1) : s[j] \in cls) - 1

----------------------------------------------------------------------------
(* The metadata locator: is_metadata_file.                                 *)

QDigits == 7
YearDigits == 4
FieldDigits == 2
\* the number of two-digit fields after the year: MM-DD-HH-MM-SS
TimeFields == 5

Keywords == { <<"p", "o", "g", "i", "n", "g">>, <<"a", "t", "t", "e", "m", "p", "t">> }

Cls(n) == [i \in 1..n |-> Digits]
Lit(s) == [i \in 1..Len(s) |-> {s[i]}]

RECURSIVE TimePattern(_)
TimePattern(n) ==
    IF n = 0 THEN << >>
    ELSE Lit(<<"-">>) \o Cls(FieldDigits) \o TimePattern(n - 1)

\* METADATA_FILE_REGEX after its leading .* with the alternative kw taken:
\* one set of admitted characters per position
MetadataTail(kw) ==
    Lit(<<"_", "q">>) \o Cls(QDigits) \o Lit(<<"_">>) \o Lit(kw) \o Lit(<<"_">>)
    \o Cls(YearDigits) \o TimePattern(TimeFields) \o Lit(<<".", "t", "x", "t">>)

\* re.fullmatch of tail behind .*: the last Len(tail) characters match tail
\* and everything before them is matched by .* (no line break)
FullMatchDotStarThen(tail, s) ==
    /\ Len(s) >= Len(tail)
    /\ LET off == Len(s) - Len(tail)
       IN  /\ \A i \in 1..off : s[i] # LineBreak
           /\ \A k \in 1..Len(tail) : s[off + k] \in tail[k]

is_metadata_file(filename) ==
    \E kw \in Keywords : FullMatchDotStarThen(MetadataTail(kw), filename)

----------------------------------------------------------------------------
(* The metadata parser.                                                    *)

NameLabels == { <<"N", "a", "m", "e">>, <<"N", "a", "a", "m">> }
OriginalLabels == { <<"O", "o", "r", "s", "p", "r", "o", "n", "k", "e", "l", "i", "j", "k", "e", " ", "b", "e", "s", "t", "a", "n", "d", "s", "n", "a", "a", "m">>, <<"O", "r", "i", "g", "i", "n", "a", "l", " ", "f", "i", "l", "e", "n", "a", "m", "e">> }
FilenameLabels == { <<"B", "e", "s", "t", "a", "n", "d", "s", "n", "a", "a", "m">>, <<"F", "i", "l", "e", "n", "a", "m", "e">> }

\* ` \((q\d+)\)` matches in text right after position e: the position of the
\* closing parenthesis, 0 when it does not match
QidEnd(text, e) ==
    IF ~OccursAt(text, e + 1, <<" ", "(", "q">>) THEN 0
    ELSE LET n == LeadingRun(From(text, e + 4), Digits)
         IN  IF n >= 1 /\ OccursAt(text, e + 4 + n, <<")">>)
             THEN e + 4 + n ELSE 0

\* the matches re.search can choose from: <<p, e>> where `Name: ` or `Naam: `
\* starts at p, (.*) takes text[p+6..e] and ` \((q\d+)\)` follows
NameMatches(text) ==
    LET starts == {p \in 1..Len(text) :
                     \E l \in NameLabels : OccursAt(text, p, l \o <<":", " ">>)}
    IN  {m \in starts \X (0..Len(text)) :
            /\ m[2] >= m[1] + 5
            /\ \A i \in (m[1] + 6)..m[2] : text[i] # LineBreak
            /\ QidEnd(text, m[2]) # 0}

\* extract_name_and_qid_from_metadata: the leftmost match, its (.*) greedy;
\* [ok |-> FALSE] stands for MetadataError
extract_name_and_qid_from_metadata(text) ==
    LET ms == NameMatches(text)
    IN  IF ms = {} THEN [ok |-> FALSE]
        ELSE LET p == CHOOSE p \in {m[1] : m \in ms} :
                         \A m \in ms : p <= m[1]
                 e == CHOOSE e \in {m[2] : m \in {x \in ms : x[1] = p}} :
                         \A m \in ms : m[1] = p => m[2] <= e
             IN  [ok   |-> TRUE,
                  name |-> SubSeq(text, p + 6, e),
                  qid  |-> SubSeq(text, e + 3, QidEnd(text, e) - 1)]

\* re.fullmatch(r'\s+(?:l1|l2): (.*)', line): [ok, value]
FullMatchLabelLine(labels, line) ==
    LET n == LeadingRun(line, Whitespace)
    IN  IF /\ n >= 1
           /\ \E l \in labels : OccursAt(line, n + 1, l \o <<":", " ">>)
           /\ \A i \in 1..Len(line) : line[i] # LineBreak
        THEN LET l == CHOOSE l \in labels : OccursAt(line, n + 1, l \o <<":", " ">>)
             IN  [ok |-> TRUE, value |-> From(line, n + Len(l) + 3)]
        ELSE [ok |-> FALSE]

\* the same pattern without its leading \s+ and applied to the stripped line
StrippedMatchLabelLine(labels, line) ==
    LET n == LeadingRun(line, Whitespace)
        t == From(line, n + 1)
    IN  IF \E l \in labels : OccursAt(t, 1, l \o <<":", " ">>)
        THEN LET l == CHOOSE l \in labels : OccursAt(t, 1, l \o <<":", " ">>)
             IN  [ok |-> TRUE, value |-> From(t, Len(l) + 3)]
        ELSE [ok |-> FALSE]

\* dict assignment d[k] = v on a dict kept as its items in insertion order
Put(d, k, v) ==
    IF \E i \in 1..Len(d) : d[i][1] = k
    THEN [i \in 1..Len(d) |-> IF d[i][1] = k THEN <<k, v>> ELSE d[i]]
    ELSE Append(d, <<k, v>>)

\* dict.setdefault(k, v): a key keeps the value it has
SetDefault(d, k, v) ==
    IF \E i \in 1..Len(d) : d[i][1] = k THEN d ELSE Append(d, <<k, v>>)

Keys(d) == {d[i][1] : i \in 1..Len(d)}
Get(d, k) == d[CHOOSE i \in 1..Len(d) : d[i][1] = k][2]

Dummy == <<"d", "u", "m", "m", "y">>

\* the loop body matching the stripped line
ScanLineStripped(st, line) ==
    LET o  == StrippedMatchLabelLine(OriginalLabels, line)
        an == IF o.ok THEN o.value ELSE st.actual_name
        f  == StrippedMatchLabelLine(FilenameLabels, line)
    IN  [actual_name |-> an,
         result      |-> IF f.ok THEN Put(st.result, f.value, an)
                         ELSE st.result,
         branch      |-> IF o.ok /\ f.ok THEN "both"
                         ELSE IF o.ok THEN "original"
                         ELSE IF f.ok THEN "filename" ELSE "none"]

\* the loop body keeping the first value recorded for a filename
ScanLineFirstWins(st, line) ==
    LET o  == FullMatchLabelLine(OriginalLabels, line)
        an == IF o.ok THEN o.value ELSE st.actual_name
        f  == FullMatchLabelLine(FilenameLabels, line)
    IN  [actual_name |-> an,
         result      |-> IF f.ok THEN SetDefault(st.result, f.value, an)
                         ELSE st.result,
         branch      |-> IF o.ok /\ f.ok THEN "both"
                         ELSE IF o.ok THEN "original"
                         ELSE IF f.ok THEN "filename" ELSE "none"]

\* one turn of the loop body of find_submitted_files on one line:
\* st = [actual_name, result] before, the same after, with the branch taken
ScanLine(st, line) ==
    LET o  == FullMatchLabelLine(OriginalLabels, line)
        an == IF o.ok THEN o.value ELSE st.actual_name
        f  == FullMatchLabelLine(FilenameLabels, line)
    IN  [actual_name |-> an,
         result      |-> IF f.ok THEN Put(st.result, f.value, an)
                         ELSE st.result,
         branch      |-> IF o.ok /\ f.ok THEN "both"
                         ELSE IF o.ok THEN "original"
                         ELSE IF f.ok THEN "filename" ELSE "none"]

RECURSIVE ScanFrom(_, _)
ScanFrom(st, lines) ==
    IF lines = << >> THEN st
    ELSE ScanFrom(ScanLine(st, Head(lines)), Tail(lines))

find_submitted_files(text) ==
    ScanFrom([actual_name |-> Dummy, result |-> << >>, branch |-> "none"],
             SplitLines(text)).result

\* parse_metadata: the Submission, or [ok |-> FALSE] for MetadataError
parse_metadata(text) ==
    LET nq == extract_name_and_qid_from_metadata(text)
    IN  IF ~nq.ok THEN [ok |-> FALSE]
        ELSE [ok |-> TRUE, name |-> nq.name, qid |-> nq.qid,
              files |-> find_submitted_files(text)]

----------------------------------------------------------------------------
(* The slug.                                                               *)

UpperCase == <<"A", "B", "C", "D", "E", "F", "G", "H", "I", "J", "K", "L", "M", "N", "O", "P", "Q", "R", "S", "T", "U", "V", "W", "X", "Y", "Z">>
LowerCase == <<"a", "b", "c", "d", "e", "f", "g", "h", "i", "j", "k", "l", "m", "n", "o", "p", "q", "r", "s", "t", "u", "v", "w", "x", "y", "z">>

\* str.lower on one character
LowerChar(c) ==
    IF \E i \in 1..Len(UpperCase) : UpperCase[i] = c
    THEN LowerCase[CHOOSE i \in 1..Len(UpperCase) : UpperCase[i] = c]
    ELSE c

Lower(s) == [i \in 1..Len(s) |-> LowerChar(s[i])]

\* unidecode on one character: ASCII stays, the accented letters of the
\* model go to their base letter
UnidecodeChar(c) ==
    IF c = "é" THEN <<"e">>
    ELSE IF c = "É" THEN <<"E">>
    ELSE <<c>>

Unidecode(s) == Concat([i \in 1..Len(s) |-> UnidecodeChar(s[i])])

slug_from_name(name) ==
    LET parts == SplitSpaces(Lower(Unidecode(name)))
    IN  Concat(Tail(parts)) \o <<"-">> \o parts[1]

----------------------------------------------------------------------------
(* Inputs.                                                                 *)

\* all sequences over S of length at most n
SeqsUpTo(S, n) == UNION {[1..k -> S] : k \in 0..n}

DigitChars == <<"1", "2", "3", "4", "5", "6", "7", "8", "9", "0">>
\* a run of n digits
DigitsText(n) == [i \in 1..n |-> DigitChars[((i - 1) % 10) + 1]]

\* an entry name, put together from its parts: prefix, `_q`, nq digits, `_`,
\* keyword, `_`, the timestamp fields (ts: their widths) joined by `-`, the
\* suffix, and whatever trails it
RenderName(d) ==
    d.prefix \o <<"_", "q">> \o DigitsText(d.nq) \o <<"_">> \o d.kw \o <<"_">>
    \o Join([i \in 1..Len(d.ts) |-> DigitsText(d.ts[i])], <<"-">>)
    \o d.suffix \o d.trail

PlainName ==
    [prefix |-> <<"T">>, nq |-> 7, kw |-> <<"p", "o", "g", "i", "n", "g">>, ts |-> <<4, 2, 2, 2, 2, 2>>,
     suffix |-> <<".", "t", "x", "t">>, trail |-> << >>]

\* entry names the locator is tried on: well-formed ones, one with a line
\* break in its prefix, and ones that differ from a well-formed one in a
\* single part
NamePool ==
    { PlainName,
      [PlainName EXCEPT !.prefix = << >>, !.kw = <<"a", "t", "t", "e", "m", "p", "t">>],
      [PlainName EXCEPT !.prefix = <<"a", "_", "q", "1", "2", "_", "x", ".", "t", "x", "t">>],
      [PlainName EXCEPT !.prefix = <<"a", "\n", "b">>],
      [PlainName EXCEPT !.nq = 6],
      [PlainName EXCEPT !.nq = 8],
      [PlainName EXCEPT !.kw = <<"P", "o", "g", "i", "n", "g">>],
      [PlainName EXCEPT !.kw = <<"t", "r", "y">>],
      [PlainName EXCEPT !.ts = <<4, 2, 2, 2, 2>>],
      [PlainName EXCEPT !.ts = <<4, 2, 2, 2, 2, 3>>],
      [PlainName EXCEPT !.suffix = <<".", "z", "i", "p">>],
      [PlainName EXCEPT !.suffix = <<"x", "t", "x", "t">>],
      [PlainName EXCEPT !.trail = <<".", "b", "a", "k">>] }

\* a line of metadata, put together from its parts: leading whitespace, text
\* before the label, the label, the separator, the value and what trails it
RenderLine(d) == d.lead \o d.pre \o d.label \o d.sep \o d.value \o d.trail

PlainLine ==
    [lead |-> <<"\t">>, pre |-> << >>, label |-> <<"F", "i", "l", "e", "n", "a", "m", "e">>, sep |-> <<":", " ">>,
     value |-> <<"a">>, trail |-> << >>]

\* lines find_submitted_files is tried on
LinePool ==
    { PlainLine,
      [PlainLine EXCEPT !.lead = <<" ">>, !.label = <<"B", "e", "s", "t", "a", "n", "d", "s", "n", "a", "a", "m">>],
      [PlainLine EXCEPT !.label = <<"O", "r", "i", "g", "i", "n", "a", "l", " ", "f", "i", "l", "e", "n", "a", "m", "e">>, !.value = <<"x">>],
      [PlainLine EXCEPT !.lead = <<" ", " ">>,
                        !.label = <<"O", "o", "r", "s", "p", "r", "o", "n", "k", "e", "l", "i", "j", "k", "e", " ", "b", "e", "s", "t", "a", "n", "d", "s", "n", "a", "a", "m">>,
                        !.value = <<"y">>],
      [PlainLine EXCEPT !.lead = << >>],
      [PlainLine EXCEPT !.lead = << >>, !.label = <<"O", "r", "i", "g", "i", "n", "a", "l", " ", "f", "i", "l", "e", "n", "a", "m", "e">>,
                        !.value = <<"z">>],
      [PlainLine EXCEPT !.label = <<"f", "i", "l", "e", "n", "a", "m", "e">>],
      [PlainLine EXCEPT !.pre = <<"x", " ">>],
      [PlainLine EXCEPT !.sep = <<":">>],
      [PlainLine EXCEPT !.trail = <<" ">>],
      [PlainLine EXCEPT !.value = << >>],
      [PlainLine EXCEPT !.lead = << >>, !.label = <<"N", "a", "m", "e">>,
                        !.value = <<"J", "a", "n", "e", " ", "D", "o", "e", " ", "(", "q", "1", ")">>] }

MaxNames == 2
MaxLines == 3

----------------------------------------------------------------------------
(* The values the variables of a part hold while another part runs.        *)

LocatorIdle ==
    /\ nameSpecs = << >>
    /\ contents = << >>
    /\ li = 0
    /\ selected = << >>

ScanIdle ==
    /\ lineSpecs = << >>
    /\ metadata = << >>
    /\ si = 0
    /\ actual_name = Dummy
    /\ result = << >>
    /\ branch = "none"

RunIdle ==
    /\ command = "none"
    /\ archive = << >>
    /\ archiveValid = FALSE
    /\ pc = "idle"
    /\ archiveOpen = FALSE
    /\ openCount = 0
    /\ idx = 0
    /\ cur = [ok |-> FALSE]
    /\ curIdx = 0
    /\ fpos = 0
    /\ dirs = {}
    /\ files = << >>
    /\ stdout = << >>
    /\ stderr = << >>
    /\ rows = << >>
    /\ emitted = << >>
    /\ parsed = << >>
    /\ completed = << >>
    /\ written = << >>
    /\ readClosed = FALSE
    /\ failure = "none"
    /\ failedAt = 0
    /\ rerun = FALSE
    /\ firstRun = [ok |-> FALSE]

----------------------------------------------------------------------------
(* The locator on its own: the generator expression of find_submissions    *)
(* over a list of entry names.                                             *)

InitLocator ==
    /\ nameSpecs \in SeqsUpTo(NamePool, MaxNames)
    /\ contents = [i \in 1..Len(nameSpecs) |-> RenderName(nameSpecs[i])]
    /\ li = 0
    /\ selected = << >>
    /\ ScanIdle
    /\ RunIdle

\* the generator expression examines the next name
LocateNext ==
    /\ li < Len(contents)
    /\ li' = li + 1
    /\ selected' = IF is_metadata_file(contents[li + 1])
                   THEN Append(selected, contents[li + 1])
                   ELSE selected
    /\ UNCHANGED <<nameSpecs, contents, scanVars, runVars>>

NextLocator == LocateNext

SpecLocator == InitLocator /\ [][NextLocator]_vars

----------------------------------------------------------------------------
(* find_submitted_files on its own, one line at a time.                    *)

InitScan ==
    /\ lineSpecs \in SeqsUpTo(LinePool, MaxLines)
    /\ metadata = Join([i \in 1..Len(lineSpecs) |-> RenderLine(lineSpecs[i])],
                       <<LineBreak>>)
    /\ si = 0
    /\ actual_name = Dummy
    /\ result = << >>
    /\ branch = "none"
    /\ LocatorIdle
    /\ RunIdle

\* the for loop takes the next line
ScanNext ==
    /\ si < Len(SplitLines(metadata))
    /\ LET st == ScanLine([actual_name |-> actual_name, result |-> result,
                           branch |-> branch],
                          SplitLines(metadata)[si + 1])
       IN  /\ actual_name' = st.actual_name
           /\ result' = st.result
           /\ branch' = st.branch
    /\ si' = si + 1
    /\ UNCHANGED <<lineSpecs, metadata, locVars, runVars>>

NextScan == ScanNext

SpecScan == InitScan /\ [][NextScan]_vars

----------------------------------------------------------------------------
(* The archive.                                                            *)

\* what an entry holds: text (bytes that decode as UTF-8), a nested zip
\* archive with its own entries, or other bytes (neither UTF-8 nor a zip)
TextContent(t) == [kind |-> "text", text |-> t]
ZipContent(es) == [kind |-> "zip", entries |-> es]
BlobContent(b) == [kind |-> "blob", bytes |-> b]

MetaName(p) == RenderName([PlainName EXCEPT !.prefix = p])
Lines(ls) == Join(ls, <<LineBreak>>)

\* the submitted files the archive holds, under their names in the archive;
\* the nested archive a2 holds a file that is named a1 itself
DataEntries ==
    << [name |-> <<"a", "1">>, content |-> BlobContent("B1")],
       [name |-> <<"a", "2">>,
        content |-> ZipContent(<< [name |-> <<"i", "n", "1">>, content |-> BlobContent("N1")],
                                  [name |-> <<"a", "1">>, content |-> BlobContent("N2")] >>)],
       [name |-> <<"a", "3">>, content |-> BlobContent("B3")] >>

\* the metadata entries an archive is made of
MetaPool ==
    { \* one file, original name x
      [name |-> MetaName(<<"A">>),
       content |-> TextContent(Lines(<< <<"N", "a", "a", "m", ":", " ", "J", "a", "n", "e", " ", "D", "o", "e", " ", "(", "q", "1", "2", "3", "4", "5", "6", "7", ")">>,
                                        <<"\t", "O", "o", "r", "s", "p", "r", "o", "n", "k", "e", "l", "i", "j", "k", "e", " ", "b", "e", "s", "t", "a", "n", "d", "s", "n", "a", "a", "m", ":", " ", "x">>,
                                        <<"\t", "B", "e", "s", "t", "a", "n", "d", "s", "n", "a", "a", "m", ":", " ", "a", "1">> >>))],
      \* the same slug: a submitted zip, and a file with original name x
      [name |-> MetaName(<<"B">>),
       content |-> TextContent(Lines(<< <<"N", "a", "m", "e", ":", " ", "J", "a", "n", "é", " ", "D", "o", "e", " ", "(", "q", "7", "6", "5", "4", "3", "2", "1", ")">>,
                                        <<"\t", "O", "r", "i", "g", "i", "n", "a", "l", " ", "f", "i", "l", "e", "n", "a", "m", "e", ":", " ", "s", ".", "z", "i", "p">>,
                                        <<"\t", "F", "i", "l", "e", "n", "a", "m", "e", ":", " ", "a", "2">>,
                                        <<"\t", "O", "r", "i", "g", "i", "n", "a", "l", " ", "f", "i", "l", "e", "n", "a", "m", "e", ":", " ", "x">>,
                                        <<"\t", "F", "i", "l", "e", "n", "a", "m", "e", ":", " ", "a", "3">> >>))],
      \* no name line
      [name |-> MetaName(<<"C">>),
       content |-> TextContent(Lines(<< <<"O", "p", "d", "r", "a", "c", "h", "t", ":", " ", "T">>,
                                        <<"\t", "F", "i", "l", "e", "n", "a", "m", "e", ":", " ", "a", "1">> >>))],
      \* no file
      [name |-> MetaName(<<"D">>),
       content |-> TextContent(<<"N", "a", "m", "e", ":", " ", "R", "e", "n", " ", "N", "g", " ", "(", "q", "1", "2", "3", "4", "5", "6", "7", ")">>)],
      \* a file the archive does not hold, with no original name before it
      [name |-> MetaName(<<"E">>),
       content |-> TextContent(Lines(<< <<"N", "a", "m", "e", ":", " ", "A", "n", "n", " ", "L", "e", "e", " ", "(", "q", "2", ")">>,
                                        <<"\t", "F", "i", "l", "e", "n", "a", "m", "e", ":", " ", "a", "9">> >>))],
      \* metadata that is not UTF-8
      [name |-> MetaName(<<"F">>), content |-> BlobContent("M6")],
      \* declared a zip, and is none
      [name |-> MetaName(<<"G">>),
       content |-> TextContent(Lines(<< <<"N", "a", "m", "e", ":", " ", "J", "o", " ", "(", "q", "3", ")">>,
                                        <<"\t", "O", "r", "i", "g", "i", "n", "a", "l", " ", "f", "i", "l", "e", "n", "a", "m", "e", ":", " ", "t", ".", "z", "i", "p">>,
                                        <<"\t", "F", "i", "l", "e", "n", "a", "m", "e", ":", " ", "a", "1">> >>))],
      \* an empty original name: the rename target is the directory itself
      [name |-> MetaName(<<"H">>),
       content |-> TextContent(Lines(<< <<"N", "a", "m", "e", ":", " ", "A", "n", "n", " ", " ", "L", "e", "e", " ", "(", "q", "4", ")">>,
                                        <<"\t", "O", "r", "i", "g", "i", "n", "a", "l", " ", "f", "i", "l", "e", "n", "a", "m", "e", ":", " ">>,
                                        <<"\t", "F", "i", "l", "e", "n", "a", "m", "e", ":", " ", "a", "3">> >>))] }

MaxSubmissions == 3

\* the pure functions of the source, tabulated over the names and texts an
\* archive of the model can hold
EntryNames == {DataEntries[i].name : i \in 1..Len(DataEntries)}
                 \cup {m.name : m \in MetaPool}
MetadataFileNames == {n \in EntryNames : is_metadata_file(n)}
PoolTexts == {m.content.text : m \in {e \in MetaPool : e.content.kind = "text"}}
ParsedMetadata == [t \in PoolTexts |-> parse_metadata(t)]
SlugOfName ==
    [n \in {ParsedMetadata[t].name : t \in {u \in PoolTexts : ParsedMetadata[u].ok}}
       |-> slug_from_name(n)]

\* archive.namelist()
namelist(arch) == [i \in 1..Len(arch) |-> arch[i].name]

HasEntry(arch, name) == \E i \in 1..Len(arch) : arch[i].name = name

\* archive.read(name) for a name the archive holds: the content of the last
\* entry of that name
ReadEntry(arch, name) ==
    arch[CHOOSE i \in 1..Len(arch) :
            arch[i].name = name /\ \A j \in (i + 1)..Len(arch) : arch[j].name # name
        ].content

----------------------------------------------------------------------------
(* The file system under the working directory.                            *)

WriteFile(fs, d, n, b) ==
    [p \in DOMAIN fs \cup {<<d, n>>} |-> IF p = <<d, n>> THEN b ELSE fs[p]]

RemoveFile(fs, d, n) == [p \in DOMAIN fs \ {<<d, n>>} |-> fs[p]]

\* ZipFile.extractall(d): every entry is written under its own name, in order
RECURSIVE ExtractAll(_, _, _)
ExtractAll(fs, d, es) ==
    IF es = << >> THEN fs
    ELSE ExtractAll(WriteFile(fs, d, es[1].name, es[1].content), d, Tail(es))

\* os.rename(d/from, d/to) where d/from is a file: an empty `to` names the
\* directory d itself and the call raises; a file at d/to is replaced
\* (POSIX); renaming a file to itself does nothing
RenameRaises(to) == to = << >>
Rename(fs, d, from, to) ==
    IF from = to THEN fs
    ELSE RemoveFile(WriteFile(fs, d, to, fs[<<d, from>>]), d, from)

\* what a step on the file system comes to: the files after it, the
\* exception it raised ("none": it returned), and the files it wrote
Returned(fs, w) == [files |-> fs, failure |-> "none", written |-> w]
Raised(fs, e) == [files |-> fs, failure |-> e, written |-> << >>]

\* extract_submitted_zipfile
extract_submitted_zipfile(arch, filename_in_archive, directory, fs) ==
    IF ~HasEntry(arch, filename_in_archive) THEN Raised(fs, "KeyError")
    ELSE LET buffer == ReadEntry(arch, filename_in_archive)
         IN  IF buffer.kind # "zip" THEN Raised(fs, "BadZipFile")
             ELSE Returned(ExtractAll(fs, directory, buffer.entries),
                           [i \in 1..Len(buffer.entries) |->
                              [name |-> buffer.entries[i].name,
                               content |-> buffer.entries[i].content]])

\* extract_submitted_nonzipfile
extract_submitted_nonzipfile(arch, filename_in_archive, target_filename, directory, fs) ==
    IF ~HasEntry(arch, filename_in_archive) THEN Raised(fs, "KeyError")
    ELSE LET extracted == WriteFile(fs, directory, filename_in_archive,
                                    ReadEntry(arch, filename_in_archive))
         IN  IF RenameRaises(target_filename) THEN Raised(extracted, "OSError")
             ELSE Returned(Rename(extracted, directory, filename_in_archive,
                                  target_filename),
                           << [name |-> target_filename,
                               content |-> ReadEntry(arch, filename_in_archive)] >>)

\* extract_submission_file leaving the extracted file under its archive name
extract_submission_file_norename(arch, filename_in_archive, target_filename, directory, fs) ==
    IF EndsWith(target_filename, <<".", "z", "i", "p">>)
    THEN extract_submitted_zipfile(arch, filename_in_archive, directory, fs)
    ELSE extract_submitted_nonzipfile(arch, filename_in_archive,
                                      filename_in_archive, directory, fs)

\* extract_submission_file
extract_submission_file(arch, filename_in_archive, target_filename, directory, fs) ==
    IF EndsWith(target_filename, <<".", "z", "i", "p">>)
    THEN extract_submitted_zipfile(arch, filename_in_archive, directory, fs)
    ELSE extract_submitted_nonzipfile(arch, filename_in_archive,
                                      target_filename, directory, fs)

\* the test before os.mkdir, left out
MkdirAlways(directory, ds) == TRUE

\* `if not os.path.exists(directory)`: os.mkdir is called
MkdirNeeded(directory, ds) == directory \notin ds

\* whether the handle is open once an exception has left the block, when the
\* archive is opened without `with` and closed after the loop
LeftAsIs(open) == open

\* whether the handle is open once control has left `with ZipFile(...)`,
\* normally or by an exception
OpenAfterWith(open) == FALSE

\* the zero-files test taken the wrong way round
WarnsUnlessEmpty(fs) == Len(fs) # 0

\* `if len(submission.files) == 0`
WarnsZeroFiles(fs) == Len(fs) = 0

----------------------------------------------------------------------------
(* A run of `view` or `unpack`.                                            *)

NoSubmission == [ok |-> FALSE]

Init ==
    /\ command \in {"view", "unpack"}
    /\ \/ /\ archiveValid = TRUE
          /\ \E metas \in SeqsUpTo(MetaPool, MaxSubmissions) :
                archive = DataEntries \o metas
       \/ /\ archiveValid = FALSE
          /\ archive = << >>
    /\ pc = "start"
    /\ archiveOpen = FALSE
    /\ openCount = 0
    /\ idx = 0
    /\ cur = NoSubmission
    /\ curIdx = 0
    /\ fpos = 0
    /\ dirs = {}
    /\ files = << >>
    /\ stdout = << >>
    /\ stderr = << >>
    /\ rows = << >>
    /\ emitted = << >>
    /\ parsed = << >>
    /\ completed = << >>
    /\ written = << >>
    /\ readClosed = FALSE
    /\ failure = "none"
    /\ failedAt = 0
    /\ rerun = FALSE
    /\ firstRun = [ok |-> FALSE]
    /\ LocatorIdle
    /\ ScanIdle

\* an exception caught around the body of the loop, which then goes on with
\* the next entry
Swallow(e, at) ==
    /\ pc' = "iterate"
    /\ failure' = e
    /\ failedAt' = at
    /\ archiveOpen' = archiveOpen

\* an exception leaves the `with` block and ends the command
Abort(e, at) ==
    /\ pc' = "aborted"
    /\ failure' = e
    /\ failedAt' = at
    /\ archiveOpen' = OpenAfterWith(archiveOpen)

\* `with ZipFile(archive) as file:` and the call of find_submissions, which
\* only creates the generator
OpenArchive ==
    /\ pc = "start"
    /\ openCount' = openCount + 1
    /\ IF archiveValid
       THEN /\ archiveOpen' = TRUE
            /\ pc' = "iterate"
            /\ UNCHANGED <<failure, failedAt>>
       ELSE /\ pc' = "aborted"
            /\ failure' = "BadZipFile"
            /\ failedAt' = 0
            /\ archiveOpen' = FALSE
    /\ UNCHANGED <<command, archive, archiveValid, idx, cur, curIdx, fpos,
                   dirs, files, stdout, stderr, rows, emitted, parsed,
                   completed, written, readClosed, rerun, firstRun,
                   locVars, scanVars>>

\* where the generator goes on when the try block sits around the loop
LeavesLoop == "finish"

\* where the generator goes on after `except MetadataError`: the try block
\* sits inside the loop, so with the next meta_filename
AfterMetadataError == "iterate"

\* the positions after idx whose name the generator expression lets through
PendingMetadata == {j \in (idx + 1)..Len(archive) :
                      namelist(archive)[j] \in MetadataFileNames}

\* the for loop asks the generator of find_submissions for its next item:
\* one turn of its loop over meta_filenames, or its end
NextMetadata ==
    /\ pc = "iterate"
    /\ readClosed' = (readClosed \/ ~archiveOpen)
    /\ IF PendingMetadata = {}
       THEN /\ idx' = Len(archive)
            /\ pc' = "finish"
            /\ UNCHANGED <<cur, curIdx, stderr, emitted, parsed, failure,
                           failedAt, archiveOpen>>
       ELSE LET j == CHOOSE j \in PendingMetadata :
                        \A k \in PendingMetadata : j <= k
                meta_filename == namelist(archive)[j]
                raw == ReadEntry(archive, meta_filename)
            IN  /\ idx' = j
                /\ parsed' = Append(parsed, j)
                /\ IF raw.kind # "text"
                   THEN /\ Abort("UnicodeDecodeError", j)
                        /\ UNCHANGED <<cur, curIdx, stderr, emitted>>
                   ELSE \E data \in {ParsedMetadata[raw.text]} :
                            IF data.ok
                            THEN /\ cur' = data
                                 /\ curIdx' = j
                                 /\ emitted' = Append(emitted,
                                                  [at |-> j, sub |-> data])
                                 /\ pc' = "yielded"
                                 /\ UNCHANGED <<stderr, failure, failedAt,
                                                archiveOpen>>
                            ELSE /\ stderr' = Append(stderr, meta_filename)
                                 /\ pc' = AfterMetadataError
                                 /\ UNCHANGED <<cur, curIdx, emitted,
                                                failure, failedAt, archiveOpen>>
    /\ UNCHANGED <<command, archive, archiveValid, openCount, fpos, dirs, files,
                   stdout, rows, completed, written, rerun, firstRun,
                   locVars, scanVars>>

\* dict.values() of a dict kept as its items
Values(d) == [i \in 1..Len(d) |-> d[i][2]]

\* the body of the for loop of view: table.add_row
AddRow ==
    /\ pc = "yielded"
    /\ command = "view"
    /\ rows' = Append(rows, <<cur.name, cur.qid, Join(Values(cur.files), <<" ">>)>>)
    /\ completed' = Append(completed, curIdx)
    /\ pc' = "iterate"
    /\ UNCHANGED <<command, archive, archiveValid, archiveOpen, openCount,
                   idx, cur, curIdx, fpos, dirs, files, stdout, stderr,
                   emitted, parsed, written, readClosed, failure, failedAt,
                   rerun, firstRun, locVars, scanVars>>

\* extract_all_files_from_submission up to its loop over the files
BeginSubmission ==
    /\ pc = "yielded"
    /\ command = "unpack"
    /\ \E directory \in {SlugOfName[cur.name]} :
           IF MkdirNeeded(directory, dirs) /\ directory \in dirs
           THEN \* os.mkdir on a path that exists
                /\ Abort("FileExistsError", curIdx)
                /\ UNCHANGED <<dirs, stdout, completed>>
           ELSE /\ dirs' = IF MkdirNeeded(directory, dirs)
                           THEN dirs \cup {directory} ELSE dirs
                /\ stdout' = IF WarnsZeroFiles(cur.files)
                             THEN Append(stdout, <<cur.name, cur.qid>>)
                             ELSE stdout
                /\ IF Len(cur.files) = 0
                   THEN /\ completed' = Append(completed, curIdx)
                        /\ pc' = "iterate"
                   ELSE /\ completed' = completed
                        /\ pc' = "extracting"
                /\ UNCHANGED <<failure, failedAt, archiveOpen>>
    /\ fpos' = 0
    /\ UNCHANGED <<command, archive, archiveValid, openCount, idx, cur,
                   curIdx, files, stderr, rows, emitted, parsed, written,
                   readClosed, rerun, firstRun, locVars, scanVars>>

\* one turn of the loop of extract_all_files_from_submission
ExtractFile ==
    /\ pc = "extracting"
    /\ fpos < Len(cur.files)
    /\ readClosed' = (readClosed \/ ~archiveOpen)
    /\ \E step \in {extract_submission_file(archive, cur.files[fpos + 1][1],
                                              cur.files[fpos + 1][2],
                                              SlugOfName[cur.name], files)} :
           /\ files' = step.files
           /\ IF step.failure # "none"
              THEN /\ Abort(step.failure, curIdx)
                   /\ UNCHANGED <<fpos, completed, written>>
              ELSE /\ fpos' = fpos + 1
                   /\ written' = written \o
                         [i \in 1..Len(step.written) |->
                            [at   |-> curIdx,
                             dir  |-> SlugOfName[cur.name],
                             name |-> step.written[i].name,
                             content |-> step.written[i].content,
                             from |-> cur.files[fpos + 1][1],
                             to   |-> cur.files[fpos + 1][2]]]
                   /\ IF fpos + 1 = Len(cur.files)
                      THEN /\ completed' = Append(completed, curIdx)
                           /\ pc' = "iterate"
                      ELSE /\ completed' = completed
                           /\ pc' = "extracting"
                   /\ UNCHANGED <<failure, failedAt, archiveOpen>>
    /\ UNCHANGED <<command, archive, archiveValid, openCount, idx, cur,
                   curIdx, dirs, stdout, stderr, rows, emitted, parsed,
                   rerun, firstRun, locVars, scanVars>>

\* the for loop has ended (view then prints the table) and control leaves
\* the `with` block
CloseArchive ==
    /\ pc = "finish"
    /\ archiveOpen' = OpenAfterWith(archiveOpen)
    /\ pc' = "done"
    /\ UNCHANGED <<command, archive, archiveValid, openCount, idx, cur,
                   curIdx, fpos, dirs, files, stdout, stderr, rows, emitted,
                   parsed, completed, written, readClosed, failure, failedAt,
                   rerun, firstRun, locVars, scanVars>>

\* `unpack` is run again on the same archive, in the same working directory
Rerun ==
    /\ pc \in {"done", "aborted"}
    /\ command = "unpack"
    /\ ~rerun
    /\ rerun' = TRUE
    /\ firstRun' = [ok |-> TRUE, dirs |-> dirs, files |-> files,
                    failure |-> failure, failedAt |-> failedAt]
    /\ pc' = "start"
    /\ archiveOpen' = FALSE
    /\ openCount' = 0
    /\ idx' = 0
    /\ cur' = NoSubmission
    /\ curIdx' = 0
    /\ fpos' = 0
    /\ stdout' = << >>
    /\ stderr' = << >>
    /\ emitted' = << >>
    /\ parsed' = << >>
    /\ completed' = << >>
    /\ written' = << >>
    /\ readClosed' = FALSE
    /\ failure' = "none"
    /\ failedAt' = 0
    /\ UNCHANGED <<command, archive, archiveValid, dirs, files, rows,
                   locVars, scanVars>>

\* a step of the command that is running
RunStep ==
    \/ OpenArchive
    \/ NextMetadata
    \/ AddRow
    \/ BeginSubmission
    \/ ExtractFile
    \/ CloseArchive

Next == RunStep \/ Rerun

Spec == Init /\ [][Next]_vars

\* a command, once started, runs to its end: it is one sequential thread of
\* control and nothing in it waits; whether `unpack` is run again is left open
FairSpec == Spec /\ WF_vars(RunStep)

----------------------------------------------------------------------------
(* The metadata locator.                                                   *)

\* a name with every part after the prefix as the naming pattern wants it
StructuredName(d) ==
    /\ d.nq = 7
    /\ d.kw \in { <<"p", "o", "g", "i", "n", "g">>, <<"a", "t", "t", "e", "m", "p", "t">> }
    /\ d.ts = <<4, 2, 2, 2, 2, 2>>
    /\ d.suffix = <<".", "t", "x", "t">>
    /\ d.trail = << >>

\* C4: the locator selects a name if and only if the whole name
\* is: any prefix, `_q`, exactly 7 digits, `_`, `poging` or `attempt`, `_`, a
\* DDDD-DD-DD-DD-DD-DD timestamp, `.txt`, and nothing after it; the names
\* selected so far are those names, in the order of the archive's list.
C4_SelectsAnyPrefix ==
    LET wanted == SelectSeq(SubSeq(nameSpecs, 1, li), StructuredName)
    IN  selected = [i \in 1..Len(wanted) |-> RenderName(wanted[i])]

----------------------------------------------------------------------------
(* The file-mapping scan.                                                  *)

\* the line is: one or more whitespace characters, the label, `: `, a value
LabelLine(d, labels) ==
    /\ d.lead # << >>
    /\ d.pre = << >>
    /\ d.label \in labels
    /\ d.sep = <<":", " ">>

\* the value of such a line: all that follows `: `
LineValue(d) == d.value \o d.trail

\* the positions among the first n lines that hold a label line
LabelLines(n, labels) == {i \in 1..n : LabelLine(lineSpecs[i], labels)}

Max(S) == CHOOSE m \in S : \A x \in S : x <= m

\* C2: after any number of lines, the mapping has one key per value f of a
\* filename line read, and no other key; f maps to the value of the last
\* original-filename line before the last filename line with value f, or to
\* "dummy" when no original-filename line comes before it.
C2_MappingIsFoldOverLines ==
    LET fl == LabelLines(si, FilenameLabels)
        ol == LabelLines(si, OriginalLabels)
    IN  /\ Keys(result) = {LineValue(lineSpecs[i]) : i \in fl}
        /\ Cardinality(Keys(result)) = Len(result)
        /\ \A f \in Keys(result) :
              LET last   == Max({i \in fl : LineValue(lineSpecs[i]) = f})
                  before == {j \in ol : j < last}
              IN  Get(result, f) =
                     IF before = {} THEN Dummy
                     ELSE LineValue(lineSpecs[Max(before)])

\* three lines were read: a filename line, an original-filename line, and a
\* filename line with the value of the first, so the key was written twice
C2_Witness ==
    /\ si = 3
    /\ LabelLine(lineSpecs[1], FilenameLabels)
    /\ LabelLine(lineSpecs[2], OriginalLabels)
    /\ LabelLine(lineSpecs[3], FilenameLabels)
    /\ LineValue(lineSpecs[1]) = LineValue(lineSpecs[3])
    /\ result = <<<<LineValue(lineSpecs[3]), LineValue(lineSpecs[2])>>>>

Reverse(s) == [i \in 1..Len(s) |-> s[Len(s) + 1 - i]]

\* str.strip
Strip(s) ==
    SubSeq(s, LeadingRun(s, Whitespace) + 1,
           Len(s) - LeadingRun(Reverse(s), Whitespace))

\* the line, trimmed, is: label, `: `, value
TrimmedLabelLine(line, labels) ==
    \E l \in labels : OccursAt(Strip(line), 1, l \o <<":", " ">>)

\* C9 as claimed: a line is recognised exactly when the line, trimmed,
\* matches label, `: `, value.
C9_RecognisedIffTrimmedLineMatches ==
    si > 0 =>
      LET line == SplitLines(metadata)[si]
      IN  /\ branch = "filename" <=> TrimmedLabelLine(line, FilenameLabels)
          /\ branch = "original" <=> TrimmedLabelLine(line, OriginalLabels)

\* C9, amended: a line is recognised exactly when the whole line, untrimmed,
\* is one or more whitespace characters, the label, `: ` and a value, the
\* value being all the rest of the line; an original-filename line sets the
\* remembered name and leaves the mapping, a filename line records its value
\* under the remembered name, and every other line changes neither.
C9_UntrimmedFullLineMatch ==
    [][si' = si + 1 =>
         LET d == lineSpecs[si']
         IN  IF LabelLine(d, OriginalLabels)
             THEN /\ branch' = "original"
                  /\ actual_name' = LineValue(d)
                  /\ result' = result
             ELSE IF LabelLine(d, FilenameLabels)
             THEN /\ branch' = "filename"
                  /\ actual_name' = actual_name
                  /\ LineValue(d) \in Keys(result')
                  /\ Get(result', LineValue(d)) = actual_name
                  /\ \A k \in Keys(result) \ {LineValue(d)} :
                        k \in Keys(result') /\ Get(result', k) = Get(result, k)
             ELSE /\ branch' = "none"
                  /\ actual_name' = actual_name
                  /\ result' = result]_vars

\* a filename line without leading whitespace was read after a mapping and a
\* remembered name had been built, and was ignored
C9_Witness ==
    /\ si = 3
    /\ lineSpecs[3].lead = << >>
    /\ lineSpecs[3].label \in FilenameLabels
    /\ branch = "none"
    /\ actual_name # Dummy
    /\ result # << >>

\* the line is matched by the filename pattern
LabelShaped(line) == FullMatchLabelLine(FilenameLabels, line).ok

\* the slug, worked out on the name as a whole: the name in ASCII and lower
\* case, what follows its first space with the spaces taken out, a hyphen,
\* and what precedes its first space
NotSpace(c) == c # " "
ClaimedSlug(name) ==
    LET n == Lower(Unidecode(name))
        k == FirstIndex(n, " ")
    IN  IF k = 0 THEN <<"-">> \o n
        ELSE SelectSeq(From(n, k + 1), NotSpace) \o <<"-">> \o SubSeq(n, 1, k - 1)

----------------------------------------------------------------------------
(* Runs of the commands.                                                   *)

Range(s) == {s[i] : i \in 1..Len(s)}

Ended == pc \in {"done", "aborted"}

\* the positions of the archive that hold a metadata entry
MetadataPositions == {j \in 1..Len(archive) : archive[j] \in MetaPool}

\* some line of the text holds `Name: ` or `Naam: `, and further on a space
\* and a parenthesised q with digits
HasNameLine(text) ==
    \E k \in 1..Len(SplitLines(text)) :
       LET line == SplitLines(text)[k]
       IN  \E p \in 1..Len(line) :
              /\ OccursAt(line, p, <<"N", "a", "m", "e", ":", " ">>) \/ OccursAt(line, p, <<"N", "a", "a", "m", ":", " ">>)
              /\ \E e \in (p + 5)..Len(line) :
                    /\ OccursAt(line, e + 1, <<" ", "(", "q">>)
                    /\ LET n == LeadingRun(From(line, e + 4), Digits)
                       IN  n >= 1 /\ OccursAt(line, e + 4 + n, <<")">>)

TextAt(j) == archive[j].content.text
Decodes(j) == archive[j].content.kind = "text"
NamedAt(j) == Decodes(j) /\ HasNameLine(TextAt(j))
UnnamedAt(j) == Decodes(j) /\ ~HasNameLine(TextAt(j))

\* C1: find_submissions yields one Submission for each metadata entry read
\* whose text has a name/ID line, in the order of the archive, and none for
\* an entry without; for each of those it writes one line naming the entry
\* to standard error and goes on: when no other failure ends the run, every
\* metadata entry of the archive has been read.
C1_OneSubmissionPerNamedEntry ==
    LET named   == SelectSeq(parsed, NamedAt)
        unnamed == SelectSeq(parsed, UnnamedAt)
    IN  /\ Len(emitted) = Len(named)
        /\ \A i \in 1..Len(emitted) :
              /\ emitted[i].at = named[i]
              /\ emitted[i].sub.ok
        /\ stderr = [i \in 1..Len(unnamed) |-> archive[unnamed[i]].name]
        /\ \A i \in 1..Len(parsed), j \in 1..Len(parsed) :
              i < j => parsed[i] < parsed[j]
        /\ (pc \in {"finish", "done"}) => Range(parsed) = MetadataPositions
        /\ (pc = "aborted" /\ failedAt # 0) =>
              ~(failedAt = parsed[Len(parsed)] /\ UnnamedAt(failedAt))

\* a run ended normally in which the second of three metadata entries had no
\* name line: the first and the third were yielded, the second reported
C1_Witness ==
    /\ pc = "done"
    /\ Len(parsed) = 3
    /\ Len(stderr) = 1
    /\ stderr[1] = archive[parsed[2]].name
    /\ Len(emitted) = 2
    /\ emitted[1].at = parsed[1]
    /\ emitted[2].at = parsed[3]

----------------------------------------------------------------------------

\* the file at d/n is after the step what it was before
SameFile(d, n) ==
    /\ (<<d, n>> \in DOMAIN files') = (<<d, n>> \in DOMAIN files)
    /\ <<d, n>> \in DOMAIN files => files'[<<d, n>>] = files[<<d, n>>]

\* C3: a step of extract_submission_file that returns, for the pair
\* (archive_name, original_name): when original_name ends in `.zip`, every
\* entry of the nested archive is in the submission directory under its own
\* name, and every other file, one named archive_name or original_name
\* included, is as it was; otherwise the directory holds original_name with
\* the bytes of the entry archive_name and, when the names differ, no file
\* named archive_name.
C3_ExtractStep ==
    [][(pc = "extracting" /\ fpos' = fpos + 1) =>
         LET archive_name  == cur.files[fpos + 1][1]
             original_name == cur.files[fpos + 1][2]
             d             == slug_from_name(cur.name)
         IN  IF Len(original_name) >= 4
                /\ SubSeq(original_name, Len(original_name) - 3,
                          Len(original_name)) = <<".", "z", "i", "p">>
             THEN LET nested == ReadEntry(archive, archive_name).entries
                      names  == {nested[i].name : i \in 1..Len(nested)}
                  IN  /\ \A i \in 1..Len(nested) :
                            /\ <<d, nested[i].name>> \in DOMAIN files'
                            /\ files'[<<d, nested[i].name>>] = nested[i].content
                      /\ \A p \in DOMAIN files \cup DOMAIN files' :
                            ~(p[1] = d /\ p[2] \in names) => SameFile(p[1], p[2])
                      /\ archive_name \notin names => SameFile(d, archive_name)
                      /\ original_name \notin names => SameFile(d, original_name)
             ELSE /\ <<d, original_name>> \in DOMAIN files'
                  /\ files'[<<d, original_name>>] = ReadEntry(archive, archive_name)
                  /\ archive_name # original_name =>
                        <<d, archive_name>> \notin DOMAIN files'
                  /\ \A p \in DOMAIN files \cup DOMAIN files' :
                        ~(p[1] = d /\ p[2] \in {archive_name, original_name})
                           => SameFile(p[1], p[2])]_vars

\* a submitted zip was unpacked and a plain file extracted after it: the
\* directory holds the nested entries and the file under its original name,
\* and none of s.zip, a2 and a3
C3_Witness ==
    \E d \in dirs :
       /\ <<d, <<"i", "n", "1">>>> \in DOMAIN files
       /\ <<d, <<"x">>>> \in DOMAIN files
       /\ files[<<d, <<"x">>>>] = BlobContent("B3")
       /\ <<d, <<"s", ".", "z", "i", "p">>>> \notin DOMAIN files
       /\ <<d, <<"a", "2">>>> \notin DOMAIN files
       /\ <<d, <<"a", "3">>>> \notin DOMAIN files

----------------------------------------------------------------------------

\* C5: in a run of `unpack` or `view` the archive is opened once; when the
\* run has ended, normally or by an exception, the archive is closed, and
\* every run comes to its end; the archive is never read while closed.
C5_OpenedOnceClosedOnEveryExit ==
    /\ [](openCount <= 1)
    /\ [](Ended => openCount = 1 /\ ~archiveOpen)
    /\ [](~readClosed)
    /\ [](pc = "start" => <>Ended)
    /\ [](archiveOpen => <>(~archiveOpen))

\* a run in which an entry raised the parse error was ended by an exception
\* later on, and the archive is closed
C5_Witness ==
    /\ pc = "aborted"
    /\ stderr # << >>
    /\ failure \in {"KeyError", "BadZipFile", "OSError", "UnicodeDecodeError"}
    /\ openCount = 1
    /\ ~archiveOpen

----------------------------------------------------------------------------

EmittedAt(j) == \E i \in 1..Len(emitted) : emitted[i].at = j
SubmissionAt(j) == emitted[CHOOSE i \in 1..Len(emitted) : emitted[i].at = j].sub

\* every pair of the submission yielded at position j has been dealt with:
\* a plain file has been written under its original name
ExtractedCompletely(j) ==
    /\ j \in Range(completed)
    /\ \A i \in 1..Len(SubmissionAt(j).files) :
          LET pair == SubmissionAt(j).files[i]
          IN  ~EndsWith(pair[2], <<".", "z", "i", "p">>) =>
                 \E w \in Range(written) :
                    w.at = j /\ w.from = pair[1] /\ w.name = pair[2]

\* C6: submissions are handled one after another: when a metadata entry is
\* read, every submission yielded before it has been handled to its end. An
\* exception other than the parse error ends the run where it is raised: no
\* metadata entry after the one being handled has been read, no file of a
\* later submission written, every submission before it has been extracted
\* completely, and the step that raised removed no file.
C6_FailureEndsRunInOrder ==
    /\ [](\A i \in 1..Len(emitted) :
             emitted[i].at < idx => emitted[i].at \in Range(completed))
    /\ [](failure # "none" => pc = "aborted")
    /\ []((pc = "aborted" /\ failedAt # 0) =>
             /\ \A j \in Range(parsed) : j <= failedAt
             /\ idx = failedAt
             /\ \A w \in Range(written) : w.at <= failedAt
             /\ \A i \in 1..Len(emitted) :
                   emitted[i].at < failedAt =>
                      (command = "unpack" => ExtractedCompletely(emitted[i].at)))
    /\ [][pc' = "aborted" =>
            \A p \in DOMAIN files : p \in DOMAIN files']_vars
    /\ [][pc = "aborted" => pc' \in {"aborted", "start"}]_vars

\* `unpack` was ended by a missing archive entry while a submission before
\* the failing one had been extracted and a metadata entry after it was
\* still to come
C6_Witness ==
    /\ command = "unpack"
    /\ pc = "aborted"
    /\ failure = "KeyError"
    /\ \E w \in Range(written) : w.at < failedAt
    /\ \E j \in MetadataPositions : j > failedAt

----------------------------------------------------------------------------

\* C7: a second run of `unpack` over the output of the first does not fail
\* at os.mkdir: the directory is created only when nothing is at its path,
\* one that exists is kept with its files as they are, and the second run
\* ends as the first did, with the same directories and files.
C7_RerunKeepsOutput ==
    /\ [](failure # "FileExistsError")
    /\ []((rerun /\ Ended) =>
             /\ dirs = firstRun.dirs
             /\ files = firstRun.files
             /\ failure = firstRun.failure
             /\ failedAt = firstRun.failedAt)
    /\ [][(pc = "yielded" /\ command = "unpack") =>
            /\ files' = files
            /\ dirs' = dirs \cup {slug_from_name(cur.name)}]_vars

\* the second run has ended normally over directories and files of the first
C7_Witness ==
    /\ rerun
    /\ pc = "done"
    /\ firstRun.failure = "none"
    /\ Cardinality(dirs) >= 2
    /\ Cardinality(DOMAIN files) >= 2

----------------------------------------------------------------------------

NoFilenameLine(text) ==
    \A k \in 1..Len(SplitLines(text)) :
       ~LabelShaped(SplitLines(text)[k])

EmptySubmission(e) == e.sub.files = << >>
Handled(e) == e.at \in Range(completed)
EmptyAndHandled(e) == EmptySubmission(e) /\ Handled(e)

\* C8: a metadata text with a name/ID line and no filename line gives a
\* Submission with an empty mapping; `unpack` prints the zero-files warning,
\* with name and ID, for the submissions with an empty mapping it has
\* handled and for no other; for these the directory exists, no file was
\* written, and the run was not ended by them.
C8_ZeroFilesWarning ==
    /\ \A i \in 1..Len(emitted) :
          NoFilenameLine(TextAt(emitted[i].at)) <=> EmptySubmission(emitted[i])
    /\ command = "unpack" =>
          LET warned == SelectSeq(emitted, EmptyAndHandled)
          IN  /\ stdout = [i \in 1..Len(warned) |->
                             <<warned[i].sub.name, warned[i].sub.qid>>]
              /\ \A i \in 1..Len(emitted) :
                    EmptySubmission(emitted[i]) =>
                       /\ emitted[i].at < idx => Handled(emitted[i])
                       /\ Handled(emitted[i]) =>
                             ClaimedSlug(emitted[i].sub.name) \in dirs
                       /\ \A w \in Range(written) : w.at # emitted[i].at
                       /\ failedAt # emitted[i].at

\* `unpack` warned about a submission without files and extracted a file of
\* a later submission after it
C8_Witness ==
    /\ command = "unpack"
    /\ Len(stdout) = 1
    /\ \E i \in 1..Len(emitted) :
          /\ EmptySubmission(emitted[i])
          /\ \E w \in Range(written) : w.at > emitted[i].at

----------------------------------------------------------------------------

\* the last record in the log of written files for the file d/n
LastWrite(d, n) ==
    Max({i \in 1..Len(written) : written[i].dir = d /\ written[i].name = n})

\* two submissions with the same slug have both been extracted
Collision ==
    \E i \in 1..Len(emitted), j \in 1..Len(emitted) :
       /\ i < j
       /\ ClaimedSlug(emitted[i].sub.name) = ClaimedSlug(emitted[j].sub.name)
       /\ Handled(emitted[i])
       /\ Handled(emitted[j])

SlugIsDirectory ==
    /\ \A i \in 1..Len(emitted) :
          (command = "unpack" /\ Handled(emitted[i])) =>
             ClaimedSlug(emitted[i].sub.name) \in dirs
    /\ \A w \in Range(written) : w.dir = ClaimedSlug(SubmissionAt(w.at).name)
    /\ failure # "FileExistsError"

\* C10: the directory of a submission is the slug of its name; submissions
\* with the same slug share it without a failure of os.mkdir, and the
\* directory then holds every file written for either, a later file of the
\* same name having replaced an earlier one.
C10_SharedDirectoryHoldsAllFiles ==
    /\ SlugIsDirectory
    /\ (failure = "none" /\ Collision) =>
          \A w \in Range(written) :
             /\ <<w.dir, w.name>> \in DOMAIN files
             /\ files[<<w.dir, w.name>>] =
                   written[LastWrite(w.dir, w.name)].content

=============================================================================
